---- MODULE Spec2Model ----
(***************************************************************************)
(* A model of trading.py (class Trading): make_trades and the helpers it   *)
(* calls.  One run of make_trades is a sequence of blocking gateway calls  *)
(* (market clock, balance, quote, order); every action below is the code   *)
(* between two such calls, the response of the call chosen by the broker.  *)
(*                                                                         *)
(* Money is counted in units of a tenth of a cent, so that a float balance *)
(* that is not a whole number of cents (1000.007, or the 0.00999... that   *)
(* 1000.01 - 1000 gives in binary floating point) is a value of the model. *)
(***************************************************************************)
EXTENDS Integers, Sequences, FiniteSets, TLC

\* ------------------------------------------------------------------ bounds

\* The longest list of companies handed to make_trades.
MaxCompanies == 2

\* The largest strategy count handed to get_budget when it is called directly.
MaxNumStrategies == 4

\* ------------------------------------------------------- program constants

\* round(x, 2) rounds to cents: one cent is Cent units of money.
Cent == 10

Dollar == 100 * Cent

\* CASH_HOLD = 1000 (dollars).
CASH_HOLD == 1000

CashHoldUnits == CASH_HOLD * Dollar

TICKER_BLACKLIST == {"GOOG", "GOOGL"}

TRADEKING_ACCOUNT_NUMBER == "ACCOUNT"

\* Python's None where the code returns a number or None (prices and
\* quantities that are returned are > 0, so the value is free).
None == -1

\* Python's None where the code returns a status string or None.
NoStatus == "None"

\* ------------------------------------------------------------ parsed JSON
\* make_request returns loads(content) or None.  A JSON object is a record
\* (a function on its keys), {} is the empty function, None is JsonNone; a
\* string that float() parses is [num |-> its value in units], another
\* string is [str |-> the string].

JsonNone == [none |-> TRUE]

EmptyDict == <<>>

IsNone(x) == "none" \in DOMAIN x

\* Python's `not x` for a parsed JSON value.
Not(x) == IsNone(x) \/ DOMAIN x = {}

\* Python's `key in x` for a JSON object.
In(key, x) == key \in DOMAIN x

\* float(x) raises ValueError unless the string is a number.
FloatOk(x) == "num" \in DOMAIN x

Float(x) == x.num

Max(a, b) == IF a >= b THEN a ELSE b

\* round(num / den, 2) for num >= 0, den > 0, in units: the nearest whole
\* number of cents, a half rounded away from zero.
RoundDiv(num, den) == Cent * ((2 * num + den * Cent) \div (2 * den * Cent))

\* --------------------------------------------------------- pure functions

\* get_strategy without its blacklist check.
get_strategy_no_blacklist(company, status) ==
    LET ticker == company.ticker
        sentiment == company.sentiment
    IN  IF status # "open" /\ status # "pre"
        THEN [ticker |-> ticker, action |-> "hold", reason |-> "market closed"]
        ELSE IF sentiment = 0
        THEN [ticker |-> ticker, action |-> "hold",
              reason |-> "neutral sentiment"]
        ELSE IF sentiment > 0
        THEN [ticker |-> ticker, action |-> "bull",
              reason |-> "positive sentiment"]
        ELSE [ticker |-> ticker, action |-> "bear",
              reason |-> "negative sentiment"]

\* get_strategy looking at the market status before the blacklist.
get_strategy_market_first(company, status) ==
    LET ticker == company.ticker
        sentiment == company.sentiment
    IN  IF status # "open" /\ status # "pre"
        THEN [ticker |-> ticker, action |-> "hold", reason |-> "market closed"]
        ELSE IF ticker \in TICKER_BLACKLIST
        THEN [ticker |-> ticker, action |-> "hold", reason |-> "blacklist"]
        ELSE IF sentiment = 0
        THEN [ticker |-> ticker, action |-> "hold",
              reason |-> "neutral sentiment"]
        ELSE IF sentiment > 0
        THEN [ticker |-> ticker, action |-> "bull",
              reason |-> "positive sentiment"]
        ELSE [ticker |-> ticker, action |-> "bear",
              reason |-> "negative sentiment"]

\* get_strategy looking at the sentiment before the market status.
get_strategy_sentiment_first(company, status) ==
    LET ticker == company.ticker
        sentiment == company.sentiment
    IN  IF ticker \in TICKER_BLACKLIST
        THEN [ticker |-> ticker, action |-> "hold", reason |-> "blacklist"]
        ELSE IF sentiment = 0
        THEN [ticker |-> ticker, action |-> "hold",
              reason |-> "neutral sentiment"]
        ELSE IF status # "open" /\ status # "pre"
        THEN [ticker |-> ticker, action |-> "hold", reason |-> "market closed"]
        ELSE IF sentiment > 0
        THEN [ticker |-> ticker, action |-> "bull",
              reason |-> "positive sentiment"]
        ELSE [ticker |-> ticker, action |-> "bear",
              reason |-> "negative sentiment"]

\* get_strategy without its `sentiment == 0` check.
get_strategy_no_neutral(company, status) ==
    LET ticker == company.ticker
        sentiment == company.sentiment
    IN  IF ticker \in TICKER_BLACKLIST
        THEN [ticker |-> ticker, action |-> "hold", reason |-> "blacklist"]
        ELSE IF status # "open" /\ status # "pre"
        THEN [ticker |-> ticker, action |-> "hold", reason |-> "market closed"]
        ELSE IF sentiment > 0
        THEN [ticker |-> ticker, action |-> "bull",
              reason |-> "positive sentiment"]
        ELSE [ticker |-> ticker, action |-> "bear",
              reason |-> "negative sentiment"]

get_strategy(company, status) ==
    LET ticker == company.ticker
        sentiment == company.sentiment
    IN  IF ticker \in TICKER_BLACKLIST
        THEN [ticker |-> ticker, action |-> "hold", reason |-> "blacklist"]
        ELSE IF status # "open" /\ status # "pre"
        THEN [ticker |-> ticker, action |-> "hold", reason |-> "market closed"]
        ELSE IF sentiment = 0
        THEN [ticker |-> ticker, action |-> "hold",
              reason |-> "neutral sentiment"]
        ELSE IF sentiment > 0
        THEN [ticker |-> ticker, action |-> "bull",
              reason |-> "positive sentiment"]
        ELSE [ticker |-> ticker, action |-> "bear",
              reason |-> "negative sentiment"]

\* get_budget without max(0.0, ...): a balance below the hold gives a
\* negative budget.
get_budget_no_clamp(bal, num_strategies) ==
    IF num_strategies <= 0
    THEN 0
    ELSE RoundDiv(bal - CashHoldUnits, num_strategies)

\* get_budget cutting the share to whole cents instead of rounding it.
get_budget_truncated(bal, num_strategies) ==
    IF num_strategies <= 0
    THEN 0
    ELSE Cent * (Max(0, bal - CashHoldUnits) \div (num_strategies * Cent))

get_budget(bal, num_strategies) ==
    IF num_strategies <= 0
    THEN 0
    ELSE RoundDiv(Max(0, bal - CashHoldUnits), num_strategies)

get_market_status(response) ==
    IF Not(response) \/ ~In("response", response)
    THEN NoStatus
    ELSE LET clock_response == response.response
         IN  IF ~In("status", clock_response)
                \/ ~In("current", clock_response.status)
             THEN NoStatus
             ELSE LET current == clock_response.status.current
                  IN  IF current \notin {"pre", "open", "after", "close"}
                      THEN NoStatus
                      ELSE current

get_balance(response) ==
    IF Not(response) \/ ~In("response", response)
    THEN 0
    ELSE LET balances == response.response
         IN  IF ~In("accountbalance", balances)
                \/ ~In("money", balances.accountbalance)
                \/ ~In("cash", balances.accountbalance.money)
                \/ ~In("uncleareddeposits", balances.accountbalance.money)
             THEN 0
             ELSE LET money == balances.accountbalance.money
                  IN  IF FloatOk(money.cash) /\ FloatOk(money.uncleareddeposits)
                      THEN Float(money.cash) - Float(money.uncleareddeposits)
                      ELSE 0

\* The malformed-quotes branch formats its log line with quotes_response, a
\* name that is not bound anywhere: reaching it raises NameError.
get_last_price_raises(response) ==
    /\ ~(Not(response) \/ ~In("response", response))
    /\ LET quotes == response.response
       IN  Not(quotes) \/ ~In("quotes", quotes)
           \/ ~In("quote", quotes.quotes)

\* The value get_last_price returns when it returns.
get_last_price(response) ==
    IF Not(response) \/ ~In("response", response)
    THEN None
    ELSE LET quote == response.response.quotes.quote
         IN  IF ~In("last", quote)
             THEN None
             ELSE IF ~FloatOk(quote.last)
             THEN None
             ELSE IF Float(quote.last) > 0
             THEN Float(quote.last)
             ELSE None

\* get_quantity without its `quantity <= 0` check.
get_quantity_unchecked(price, bud) ==
    IF price = None \/ price = 0
    THEN None
    ELSE bud \div price

\* get_quantity after its price lookup: int(budget // price) or None.
get_quantity(price, bud) ==
    IF price = None \/ price = 0
    THEN None
    ELSE LET qty == bud \div price
         IN  IF qty <= 0 THEN None ELSE qty

\* str(quantity): the decimal digits of an integer, as a sequence of
\* characters.
Digit == <<"0", "1", "2", "3", "4", "5", "6", "7", "8", "9">>

RECURSIVE str(_)
str(n) ==
    IF n < 0
    THEN <<"-">> \o str(-n)
    ELSE IF n < 10
    THEN <<Digit[n + 1]>>
    ELSE Append(str(n \div 10), Digit[(n % 10) + 1])

fixml_buy_now(ticker, qty) ==
    [TmInForce |-> "0", Typ |-> "1", Side |-> "1",
     Acct |-> TRADEKING_ACCOUNT_NUMBER, SecTyp |-> "CS", Sym |-> ticker,
     Qty |-> str(qty)]

fixml_sell_eod(ticker, qty) ==
    [TmInForce |-> "7", Typ |-> "1", Side |-> "2",
     Acct |-> TRADEKING_ACCOUNT_NUMBER, SecTyp |-> "CS", Sym |-> ticker,
     Qty |-> str(qty)]

\* fixml_short_now with the side of a plain sell.
fixml_short_now_plain_sell(ticker, qty) ==
    [TmInForce |-> "0", Typ |-> "1", Side |-> "2",
     Acct |-> TRADEKING_ACCOUNT_NUMBER, SecTyp |-> "CS", Sym |-> ticker,
     Qty |-> str(qty)]

fixml_short_now(ticker, qty) ==
    [TmInForce |-> "0", Typ |-> "1", Side |-> "5",
     Acct |-> TRADEKING_ACCOUNT_NUMBER, SecTyp |-> "CS", Sym |-> ticker,
     Qty |-> str(qty)]

\* fixml_cover_eod without its AcctTyp attribute.
fixml_cover_eod_no_acct_typ(ticker, qty) ==
    [TmInForce |-> "7", Typ |-> "1", Side |-> "1",
     Acct |-> TRADEKING_ACCOUNT_NUMBER, SecTyp |-> "CS", Sym |-> ticker,
     Qty |-> str(qty)]

fixml_cover_eod(ticker, qty) ==
    [TmInForce |-> "7", Typ |-> "1", Side |-> "1", AcctTyp |-> "5",
     Acct |-> TRADEKING_ACCOUNT_NUMBER, SecTyp |-> "CS", Sym |-> ticker,
     Qty |-> str(qty)]

\* make_order_request that takes any error field for an accepted order.
make_order_request_any_error(response) ==
    IF Not(response) \/ ~In("response", response)
    THEN FALSE
    ELSE LET order_response == response.response
         IN  IF Not(order_response) \/ ~In("error", order_response)
             THEN FALSE
             ELSE TRUE

\* make_order_request after the POST: the check of the parsed response.
make_order_request(response) ==
    IF Not(response) \/ ~In("response", response)
    THEN FALSE
    ELSE LET order_response == response.response
         IN  IF Not(order_response) \/ ~In("error", order_response)
             THEN FALSE
             ELSE order_response.error = "Success"

\* ----------------------------------------------------- what the broker says
\* The parsed responses make_request can hand back, one set per endpoint:
\* no response, objects that lack a key at each level the code looks at, and
\* complete ones.  What an object holds under a key is an object or a
\* string, never null.

ClockStatuses == {"pre", "open", "after", "close", "holiday"}

ClockResponses ==
    {JsonNone, EmptyDict, [response |-> EmptyDict],
     [response |-> [status |-> EmptyDict]]}
    \cup {[response |-> [status |-> [current |-> c]]] : c \in ClockStatuses}

CashValues == {CashHoldUnits + 7, CashHoldUnits + 2 * Cent}

UnclearedValues == {0, Cent}

BalanceResponses ==
    {JsonNone, [response |-> EmptyDict],
     [response |-> [accountbalance |-> [money |-> [cash |-> [num |-> 0]]]]],
     [response |-> [accountbalance |-> [money |->
        [cash |-> [str |-> "n/a"], uncleareddeposits |-> [num |-> 0]]]]]}
    \cup {[response |-> [accountbalance |-> [money |->
            [cash |-> [num |-> c], uncleareddeposits |-> [num |-> u]]]]] :
          c \in CashValues, u \in UnclearedValues}

LastValues == {0, 7, 2 * Cent}

QuoteResponses ==
    {JsonNone, [response |-> EmptyDict], [response |-> [quotes |-> EmptyDict]],
     [response |-> [quotes |-> [quote |-> EmptyDict]]],
     [response |-> [quotes |-> [quote |-> [last |-> [str |-> "n/a"]]]]]}
    \cup {[response |-> [quotes |-> [quote |-> [last |-> [num |-> p]]]]] :
          p \in LastValues}

OrderResponses ==
    {JsonNone, EmptyDict, [error |-> "Success"], [response |-> EmptyDict],
     [response |-> [id |-> "1"]], [response |-> [error |-> "Success"]],
     [response |-> [error |-> "success"]],
     [response |-> [error |-> "Failure"]]}

\* ------------------------------------------------------------------ inputs

Tickers == {"GOOG", "F", "GM"}

Sentiments == {-1, 0, 1}

Companies == [ticker : Tickers, sentiment : Sentiments]

CompanyLists == UNION {[1..n -> Companies] : n \in 0..MaxCompanies}

\* ------------------------------------------------------------------- state

VARIABLES
    companies,              \* the argument of make_trades
    pc,                     \* where the run stands
    market_status,          \* make_trades' local market_status
    checked_status,         \* the value the check `if not market_status` saw
    actionable_strategies,  \* make_trades' local list
    balance,                \* make_trades' local balance
    budget,                 \* make_trades' local budget
    idx,                    \* position of the execution loop (1-based)
    success,                \* make_trades' local success
    quantity,               \* bull's / bear's local quantity
    result,                 \* the value make_trades returned (pc = "done")
    selected,               \* history: the get_strategy calls of the run
    trace,                  \* history: the gateway calls of the run
    unit                    \* a direct call of a helper and what it returned

vars == <<companies, pc, market_status, checked_status, actionable_strategies,
          balance, budget, idx, success, quantity, result, selected, trace,
          unit>>

NoCall == [fn |-> "none"]

Init ==
    /\ companies \in CompanyLists
    /\ pc = "status"
    /\ market_status = NoStatus
    /\ checked_status = NoStatus
    /\ actionable_strategies = <<>>
    /\ balance = 0
    /\ budget = 0
    /\ idx = 0
    /\ success = TRUE
    /\ quantity = None
    /\ result = FALSE
    /\ selected = <<>>
    /\ trace = <<>>
    /\ unit = NoCall

\* `return value` from make_trades.
Return(value) ==
    /\ pc' = "done"
    /\ result' = value

\* ------------------------------------------------------------- make_trades

\* make_trades going on without a market status.
make_trades_status_no_return ==
    /\ pc = "status"
    /\ \E response \in ClockResponses :
         LET status == get_market_status(response)
         IN  /\ trace' = Append(trace, [op |-> "clock", response |-> response,
                                        ret |-> status])
             /\ market_status' = status
             /\ checked_status' = status
             /\ pc' = "filter"
    /\ UNCHANGED <<companies, actionable_strategies, balance, budget, idx,
                   success, quantity, result, selected, unit>>

\* Lines 51-55: the first clock query and its check.
make_trades_status ==
    /\ pc = "status"
    /\ \E response \in ClockResponses :
         LET status == get_market_status(response)
         IN  /\ trace' = Append(trace, [op |-> "clock", response |-> response,
                                        ret |-> status])
             /\ market_status' = status
             /\ checked_status' = status
             /\ IF status = NoStatus \/ status = ""
                THEN Return(FALSE)
                ELSE pc' = "filter" /\ UNCHANGED result
    /\ UNCHANGED <<companies, actionable_strategies, balance, budget, idx,
                   success, quantity, selected, unit>>

\* The filter giving up at the first hold decision.
make_trades_filter_stop_at_hold ==
    /\ pc = "filter"
    /\ \E response \in ClockResponses :
         LET status == get_market_status(response)
             calls == [k \in 1..Len(companies) |->
                         [company |-> companies[k], market_status |-> status,
                          strategy |-> get_strategy(companies[k], status)]]
             holds == {k \in DOMAIN calls : calls[k].strategy.action = "hold"}
             stop == IF holds = {}
                     THEN Len(calls) + 1
                     ELSE CHOOSE k \in holds : \A h \in holds : k <= h
             kept == SubSeq(calls, 1, stop - 1)
             strategies == [k \in 1..Len(kept) |-> kept[k].strategy]
         IN  /\ trace' = Append(trace, [op |-> "clock", response |-> response,
                                        ret |-> status])
             /\ market_status' = status
             /\ selected' = calls
             /\ actionable_strategies' = strategies
             /\ IF strategies = <<>>
                THEN Return(FALSE)
                ELSE pc' = "budget" /\ UNCHANGED result
    /\ UNCHANGED <<companies, checked_status, balance, budget, idx, success,
                   quantity, unit>>

\* The filter keeping the actionable decisions in reverse order.
make_trades_filter_reversed ==
    /\ pc = "filter"
    /\ \E response \in ClockResponses :
         LET status == get_market_status(response)
             calls == [k \in 1..Len(companies) |->
                         [company |-> companies[k], market_status |-> status,
                          strategy |-> get_strategy(companies[k], status)]]
             Actionable(c) == c.strategy.action # "hold"
             kept == SelectSeq(calls, Actionable)
             strategies == [k \in 1..Len(kept) |->
                              kept[Len(kept) + 1 - k].strategy]
         IN  /\ trace' = Append(trace, [op |-> "clock", response |-> response,
                                        ret |-> status])
             /\ market_status' = status
             /\ selected' = calls
             /\ actionable_strategies' = strategies
             /\ IF strategies = <<>>
                THEN Return(FALSE)
                ELSE pc' = "budget" /\ UNCHANGED result
    /\ UNCHANGED <<companies, checked_status, balance, budget, idx, success,
                   quantity, unit>>

\* Lines 57-69: the second clock query, one get_strategy per company, the
\* actionable decisions kept in the order of the companies.
make_trades_filter ==
    /\ pc = "filter"
    /\ \E response \in ClockResponses :
         LET status == get_market_status(response)
             calls == [k \in 1..Len(companies) |->
                         [company |-> companies[k], market_status |-> status,
                          strategy |-> get_strategy(companies[k], status)]]
             Actionable(c) == c.strategy.action # "hold"
             kept == SelectSeq(calls, Actionable)
             strategies == [k \in 1..Len(kept) |-> kept[k].strategy]
         IN  /\ trace' = Append(trace, [op |-> "clock", response |-> response,
                                        ret |-> status])
             /\ market_status' = status
             /\ selected' = calls
             /\ actionable_strategies' = strategies
             /\ IF strategies = <<>>
                THEN Return(FALSE)
                ELSE pc' = "budget" /\ UNCHANGED result
    /\ UNCHANGED <<companies, checked_status, balance, budget, idx, success,
                   quantity, unit>>

\* Lines 71-84: the balance request, the shared budget and its check.
make_trades_budget ==
    /\ pc = "budget"
    /\ \E response \in BalanceResponses :
         LET bal == get_balance(response)
             bud == get_budget(bal, Len(actionable_strategies))
         IN  /\ trace' = Append(trace, [op |-> "balance",
                                        response |-> response, ret |-> bal])
             /\ balance' = bal
             /\ budget' = bud
             /\ IF bud = 0
                THEN Return(FALSE) /\ UNCHANGED <<success, idx>>
                ELSE /\ pc' = "loop"
                     /\ success' = TRUE
                     /\ idx' = 1
                     /\ UNCHANGED result
    /\ UNCHANGED <<companies, market_status, checked_status,
                   actionable_strategies, quantity, selected, unit>>

\* Lines 85-100: one turn of `for strategy in actionable_strategies`, up to
\* the call of bull or bear, and the return after the last turn.  In
\* `success = success and self.bull(ticker, budget)` the call is evaluated
\* only while success is still true.
make_trades_loop ==
    /\ pc = "loop"
    /\ IF idx > Len(actionable_strategies)
       THEN Return(success) /\ UNCHANGED <<idx, success>>
       ELSE LET action == actionable_strategies[idx].action
            IN  IF action = "bull"
                THEN IF success
                     THEN pc' = "bull_quantity" /\ UNCHANGED <<idx, success, result>>
                     ELSE /\ idx' = idx + 1
                          /\ UNCHANGED <<pc, success, result>>
                ELSE IF action = "bear"
                THEN IF success
                     THEN pc' = "bear_quantity" /\ UNCHANGED <<idx, success, result>>
                     ELSE /\ idx' = idx + 1
                          /\ UNCHANGED <<pc, success, result>>
                ELSE /\ idx' = idx + 1
                     /\ UNCHANGED <<pc, success, result>>
    /\ UNCHANGED <<companies, market_status, checked_status,
                   actionable_strategies, balance, budget, quantity, selected,
                   trace, unit>>

\* bull or bear returned `value` to the loop: success = success and value.
StrategyReturns(value) ==
    /\ success' = (success /\ value)
    /\ idx' = idx + 1
    /\ pc' = "loop"

\* Lines 350-364 with 297-334, as called from bull (373-376) and bear
\* (397-400): the price lookup and the quantity; `next` is where the caller
\* goes on with a quantity.
QuantityStep(next) ==
    \E response \in QuoteResponses :
      LET ticker == actionable_strategies[idx].ticker
      IN  IF get_last_price_raises(response)
          THEN /\ trace' = Append(trace, [op |-> "quote", ticker |-> ticker,
                                          strategy |-> idx,
                                          response |-> response,
                                          budget |-> budget,
                                          raised |-> TRUE, ret |-> None,
                                          quantity |-> None])
               /\ pc' = "raised"
               /\ UNCHANGED <<idx, success, quantity>>
          ELSE LET price == get_last_price(response)
                   qty == get_quantity(price, budget)
               IN  /\ trace' = Append(trace, [op |-> "quote",
                                              ticker |-> ticker,
                                              strategy |-> idx,
                                              response |-> response,
                                              budget |-> budget,
                                              raised |-> FALSE,
                                              ret |-> price,
                                              quantity |-> qty])
                   /\ quantity' = qty
                   /\ IF qty = None \/ qty = 0
                      THEN StrategyReturns(FALSE)
                      ELSE pc' = next /\ UNCHANGED <<idx, success>>

\* An order leg whose result is not looked at.
LegStepUnchecked(fixml, next) ==
    \E response \in OrderResponses :
      /\ trace' = Append(trace, [op |-> "order", strategy |-> idx,
                                 fixml |-> fixml, response |-> response,
                                 ret |-> make_order_request(response)])
      /\ IF next = "loop"
         THEN StrategyReturns(TRUE)
         ELSE pc' = next /\ UNCHANGED <<idx, success>>

\* An order leg whose failure is recorded but does not end the strategy.
LegStepNoStop(fixml, next) ==
    \E response \in OrderResponses :
      LET ok == make_order_request(response)
      IN  /\ trace' = Append(trace, [op |-> "order", strategy |-> idx,
                                     fixml |-> fixml, response |-> response,
                                     ret |-> ok])
          /\ IF next = "loop"
             THEN StrategyReturns(ok)
             ELSE /\ pc' = next
                  /\ success' = (success /\ ok)
                  /\ UNCHANGED idx

\* An order leg that submits the order a second time when it failed.
LegStepRetry(fixml, next) ==
    \E response \in OrderResponses, again \in OrderResponses :
      LET first == make_order_request(response)
          ok == first \/ make_order_request(again)
          entry(r) == [op |-> "order", strategy |-> idx, fixml |-> fixml,
                       response |-> r, ret |-> make_order_request(r)]
      IN  /\ trace' = IF first
                      THEN Append(trace, entry(response))
                      ELSE Append(Append(trace, entry(response)),
                                  entry(again))
          /\ IF ~ok
             THEN StrategyReturns(FALSE)
             ELSE IF next = "loop"
             THEN StrategyReturns(TRUE)
             ELSE pc' = next /\ UNCHANGED <<idx, success>>

\* One order leg: make_order_request(fixml); on failure the strategy
\* returns False, on success the caller goes on at `next`, or returns True
\* after its last leg (next = "loop").
LegStep(fixml, next) ==
    \E response \in OrderResponses :
      LET ok == make_order_request(response)
      IN  /\ trace' = Append(trace, [op |-> "order", strategy |-> idx,
                                     fixml |-> fixml, response |-> response,
                                     ret |-> ok])
          /\ IF ~ok
             THEN StrategyReturns(FALSE)
             ELSE IF next = "loop"
             THEN StrategyReturns(TRUE)
             ELSE pc' = next /\ UNCHANGED <<idx, success>>

Locals == <<companies, market_status, checked_status, actionable_strategies,
            balance, budget, result, selected, unit>>

\* bull, lines 372-376.
bull_quantity ==
    /\ pc = "bull_quantity"
    /\ QuantityStep("bull_buy")
    /\ UNCHANGED Locals

\* bull, lines 378-381.
bull_buy ==
    /\ pc = "bull_buy"
    /\ LegStep(fixml_buy_now(actionable_strategies[idx].ticker, quantity),
               "bull_sell")
    /\ UNCHANGED <<Locals, quantity>>

\* bull selling one share at close, whatever was bought.
bull_sell_one_share ==
    /\ pc = "bull_sell"
    /\ LegStep(fixml_sell_eod(actionable_strategies[idx].ticker, 1), "loop")
    /\ UNCHANGED <<Locals, quantity>>

\* bull, lines 383-388.
bull_sell ==
    /\ pc = "bull_sell"
    /\ LegStep(fixml_sell_eod(actionable_strategies[idx].ticker, quantity),
               "loop")
    /\ UNCHANGED <<Locals, quantity>>

\* bear, lines 396-400.
bear_quantity ==
    /\ pc = "bear_quantity"
    /\ QuantityStep("bear_short")
    /\ UNCHANGED Locals

\* bear, lines 402-405.
bear_short ==
    /\ pc = "bear_short"
    /\ LegStep(fixml_short_now(actionable_strategies[idx].ticker, quantity),
               "bear_cover")
    /\ UNCHANGED <<Locals, quantity>>

\* bear, lines 407-412.
bear_cover ==
    /\ pc = "bear_cover"
    /\ LegStep(fixml_cover_eod(actionable_strategies[idx].ticker, quantity),
               "loop")
    /\ UNCHANGED <<Locals, quantity>>

Next ==
    \/ make_trades_status
    \/ make_trades_filter
    \/ make_trades_budget
    \/ make_trades_loop
    \/ bull_quantity
    \/ bull_buy
    \/ bull_sell
    \/ bear_quantity
    \/ bear_short
    \/ bear_cover

\* --------------------------------------------- get_budget called directly
\* As the tests call it: any balance, any strategy count.

BudgetBalances ==
    {0, CashHoldUnits - Cent, CashHoldUnits, CashHoldUnits + 4,
     CashHoldUnits + 7, CashHoldUnits + Cent, CashHoldUnits + 13,
     CashHoldUnits + 17, CashHoldUnits + 2 * Cent, CashHoldUnits + 2 * Dollar,
     11000 * Dollar}

InitBudget ==
    /\ unit \in [fn : {"get_budget"}, balance : BudgetBalances,
                 num_strategies : -1..MaxNumStrategies,
                 returned : {FALSE}, ret : {0}]
    /\ companies = <<>>
    /\ pc = "unit"
    /\ market_status = NoStatus
    /\ checked_status = NoStatus
    /\ actionable_strategies = <<>>
    /\ balance = 0
    /\ budget = 0
    /\ idx = 0
    /\ success = TRUE
    /\ quantity = None
    /\ result = FALSE
    /\ selected = <<>>
    /\ trace = <<>>

get_budget_call ==
    /\ pc = "unit"
    /\ unit.fn = "get_budget"
    /\ ~unit.returned
    /\ unit' = [unit EXCEPT !.returned = TRUE,
                            !.ret = get_budget(unit.balance,
                                               unit.num_strategies)]
    /\ UNCHANGED <<companies, pc, market_status, checked_status,
                   actionable_strategies, balance, budget, idx, success,
                   quantity, result, selected, trace>>

NextBudget == get_budget_call

SpecBudget == InitBudget /\ [][NextBudget]_vars

\* No run of make_trades is going on: a helper is called directly.
NoRun ==
    /\ companies = <<>>
    /\ pc = "unit"
    /\ market_status = NoStatus
    /\ checked_status = NoStatus
    /\ actionable_strategies = <<>>
    /\ balance = 0
    /\ budget = 0
    /\ idx = 0
    /\ success = TRUE
    /\ quantity = None
    /\ result = FALSE
    /\ selected = <<>>
    /\ trace = <<>>

RunVars == <<companies, pc, market_status, checked_status,
             actionable_strategies, balance, budget, idx, success, quantity,
             result, selected, trace>>

\* ------------------------------------------- get_strategy called directly
\* As the tests call it: any company, any market status (None too: the
\* second clock query of make_trades is not checked).

StrategyTickers == {"GOOG", "GOOGL", "F", "GM"}

StrategySentiments == {-2, -1, 0, 1, 2}

StrategyStatuses == {"pre", "open", "after", "close", NoStatus}

NoStrategy == [ticker |-> "", action |-> "", reason |-> ""]

InitStrategy ==
    /\ unit \in [fn : {"get_strategy"},
                 company : [ticker : StrategyTickers,
                            sentiment : StrategySentiments],
                 market_status : StrategyStatuses,
                 returned : {FALSE}, ret : {NoStrategy}]
    /\ NoRun

get_strategy_call ==
    /\ pc = "unit"
    /\ unit.fn = "get_strategy"
    /\ ~unit.returned
    /\ unit' = [unit EXCEPT !.returned = TRUE,
                            !.ret = get_strategy(unit.company,
                                                 unit.market_status)]
    /\ UNCHANGED RunVars

NextStrategy == get_strategy_call

SpecStrategy == InitStrategy /\ [][NextStrategy]_vars

\* ---------------------------------------- the FIXML builders called directly
\* As the tests call them: a ticker and a quantity.

FixmlBuilders ==
    {"fixml_buy_now", "fixml_sell_eod", "fixml_short_now", "fixml_cover_eod"}

FixmlTickers == {"GM", "F", "FCAU", "GOOG"}

FixmlQuantities == {1, 9, 10, 23, 105}

InitFixml ==
    /\ unit \in [fn : FixmlBuilders, ticker : FixmlTickers,
                 quantity : FixmlQuantities, returned : {FALSE},
                 ret : {EmptyDict}]
    /\ NoRun

fixml_call ==
    /\ pc = "unit"
    /\ unit.fn \in FixmlBuilders
    /\ ~unit.returned
    /\ unit' = [unit EXCEPT
         !.returned = TRUE,
         !.ret = CASE unit.fn = "fixml_buy_now" ->
                        fixml_buy_now(unit.ticker, unit.quantity)
                   [] unit.fn = "fixml_sell_eod" ->
                        fixml_sell_eod(unit.ticker, unit.quantity)
                   [] unit.fn = "fixml_short_now" ->
                        fixml_short_now(unit.ticker, unit.quantity)
                   [] unit.fn = "fixml_cover_eod" ->
                        fixml_cover_eod(unit.ticker, unit.quantity)]
    /\ UNCHANGED RunVars

NextFixml == fixml_call

SpecFixml == InitFixml /\ [][NextFixml]_vars

\* ------------------------------------ the execution loop entered directly
\* Lines 85-100 with a list of decisions handed in: the actions bull and
\* bear, and a value that is neither (get_strategy itself gives none).

LoopActions == {"bull", "bear", "unknown"}

LoopStrategies ==
    [ticker : {"F", "GM"}, action : LoopActions, reason : {"given"}]

LoopStrategyLists == [1..1 -> LoopStrategies] \cup [1..2 -> LoopStrategies]

InitLoop ==
    /\ companies = <<>>
    /\ pc = "loop"
    /\ market_status = "open"
    /\ checked_status = "open"
    /\ actionable_strategies \in LoopStrategyLists
    /\ budget = 2 * Cent
    /\ balance = CashHoldUnits + Len(actionable_strategies) * budget
    /\ idx = 1
    /\ success = TRUE
    /\ quantity = None
    /\ result = FALSE
    /\ selected = <<>>
    /\ trace = <<>>
    /\ unit = NoCall

NextLoop ==
    \/ make_trades_loop
    \/ bull_quantity
    \/ bull_buy
    \/ bull_sell
    \/ bear_quantity
    \/ bear_short
    \/ bear_cover

SpecLoop == InitLoop /\ [][NextLoop]_vars

Spec == Init /\ [][Next]_vars

\* make_trades is one sequential call: while a step is left to take it is
\* taken, every gateway call returning.
SpecFair == Spec /\ WF_vars(Next)

\* ------------------------------------------------ reading the run's history

Done == pc = "done"

\* The positions of the trace that hold a call of kind `op`.
Calls(op) == {j \in DOMAIN trace : trace[j].op = op}

\* The positions of the calls (quote or order) made for the idx-th
\* actionable decision.
CallsFor(op, k) == {j \in Calls(op) : trace[j].strategy = k}

Decisions == DOMAIN actionable_strategies

\* The run-level preconditions have passed: a status was there, a decision
\* was actionable, the budget was not zero.
PreconditionsPassed ==
    /\ checked_status # NoStatus
    /\ actionable_strategies # <<>>
    /\ Calls("balance") # {}
    /\ budget # 0

\* The price lookup for decision k gave a quantity: a price, and at least one
\* share of it within the budget.
QuantityObtained(k) ==
    \E j \in CallsFor("quote", k) :
        trace[j].ret # None /\ trace[j].ret > 0 /\ trace[j].ret <= budget

\* The order legs of decision k, in the order they were submitted.
LegsOf(k) ==
    LET IsLeg(e) == e.op = "order" /\ e.strategy = k
    IN  SelectSeq(trace, IsLeg)

IsBuyNow(f) == f.TmInForce = "0" /\ f.Side = "1" /\ ~In("AcctTyp", f)

IsSellEod(f) == f.TmInForce = "7" /\ f.Side = "2" /\ ~In("AcctTyp", f)

IsShortNow(f) == f.TmInForce = "0" /\ f.Side = "5" /\ ~In("AcctTyp", f)

IsCoverEod(f) ==
    f.TmInForce = "7" /\ f.Side = "1" /\ In("AcctTyp", f) /\ f.AcctTyp = "5"

\* --------------------------------------------------------------------- C1
\* C1: once the run-level preconditions have passed, every actionable
\* decision is processed: a quantity lookup is attempted for each one and,
\* where it gives a quantity, the opening leg is submitted, whatever
\* happened to the decisions before it.
C1_EveryDecisionProcessed ==
    (Done /\ PreconditionsPassed) =>
        \A k \in Decisions :
            /\ CallsFor("quote", k) # {}
            /\ QuantityObtained(k) => CallsFor("order", k) # {}

C3_ClockQueriedOnce ==
    Done =>
        /\ Cardinality(Calls("clock")) = 1
        /\ \A k \in DOMAIN selected :
             /\ selected[k].market_status = checked_status
             /\ selected[k].market_status # NoStatus

\* --------------------------------------------------------------------- C4
\* What the opening legs that the broker accepted cost at the price the
\* quantity was sized with.
\* The integer a sequence of decimal digits stands for.
RECURSIVE IntOf(_)
IntOf(digits) ==
    IF digits = <<>>
    THEN 0
    ELSE 10 * IntOf(SubSeq(digits, 1, Len(digits) - 1))
         + (CHOOSE d \in 0..9 : Digit[d + 1] = digits[Len(digits)])

RECURSIVE Spent(_)
Spent(k) ==
    IF k = 0
    THEN 0
    ELSE LET legs == LegsOf(k)
             price == trace[CHOOSE j \in CallsFor("quote", k) : TRUE].ret
         IN  Spent(k - 1)
             + (IF legs # <<>> /\ legs[1].ret
                THEN IntOf(legs[1].fixml.Qty) * price
                ELSE 0)

\* C4: the cash reserve is never allocated: the budget per strategy times
\* the number of strategies is at most max(0, balance - CASH_HOLD), and the
\* run never spends more than balance - CASH_HOLD.
C4_ReserveNeverAllocated ==
    PreconditionsPassed =>
        /\ Len(actionable_strategies) * budget
              <= Max(0, balance - CashHoldUnits)
        /\ Spent(Len(actionable_strategies)) <= balance - CashHoldUnits

\* The second half of C4 alone: what the run spends.
C4_SpendingWithinReserve ==
    PreconditionsPassed =>
        Spent(Len(actionable_strategies)) <= balance - CashHoldUnits

\* --------------------------------------------------------------------- C5
\* The decisions of the run have been made (the second clock query is
\* answered).
DecisionsMade == Cardinality(Calls("clock")) = 2

\* Every company of the input is a hold: neutral, blacklisted, or the market
\* is not pre or open (an empty list too).
AllHold ==
    \A k \in DOMAIN companies :
        \/ companies[k].sentiment = 0
        \/ companies[k].ticker \in TICKER_BLACKLIST
        \/ market_status \notin {"pre", "open"}

\* C5: when every company yields a hold decision, make_trades returns false
\* and the run submits no order.
C5_AllHoldReturnsFalse ==
    (DecisionsMade /\ AllHold) =>
        /\ Done
        /\ ~result
        /\ Calls("order") = {}

C5_Witness ==
    /\ DecisionsMade
    /\ AllHold
    /\ Done
    /\ market_status = "open"
    /\ Len(companies) = 2
    /\ companies[1].ticker \in TICKER_BLACKLIST
    /\ companies[1].sentiment # 0
    /\ companies[2].sentiment = 0

\* --------------------------------------------------------------------- C6
\* The balance the run fetched is below the cash hold, or the budget it gave
\* is zero (decisions were actionable, or the balance would not have been
\* fetched).
NoBudget ==
    /\ Calls("balance") # {}
    /\ actionable_strategies # <<>>
    /\ \/ \E j \in Calls("balance") : trace[j].ret < CashHoldUnits
       \/ budget = 0

\* C6: with a balance below CASH_HOLD (or any budget of 0) and an actionable
\* decision, make_trades returns false before any price lookup and before
\* any order.
C6_NoBudgetReturnsFalse ==
    NoBudget =>
        /\ Done
        /\ ~result
        /\ Calls("quote") = {}
        /\ Calls("order") = {}

C6_Witness ==
    /\ NoBudget
    /\ Done
    /\ Len(actionable_strategies) = 2
    /\ \E j \in Calls("balance") :
         /\ trace[j].ret < CashHoldUnits
         /\ trace[j].ret > 0

\* --------------------------------------------------------------------- C7
\* A clock response that gives no market status: no response, no response
\* object, no status or current field, or a status outside the four known.
Unavailable(response) ==
    ~ /\ ~IsNone(response)
      /\ In("response", response)
      /\ In("status", response.response)
      /\ In("current", response.response.status)
      /\ response.response.status.current \in {"pre", "open", "after", "close"}

\* C7: when the market status is unavailable, make_trades returns false
\* without a balance request, a quote lookup or an order.
C7_NoStatusReturnsFalse ==
    (\E j \in Calls("clock") : Unavailable(trace[j].response)) =>
        /\ Done
        /\ ~result
        /\ Calls("balance") = {}
        /\ Calls("quote") = {}
        /\ Calls("order") = {}

C7_Witness ==
    /\ Done
    /\ Len(trace) = 1
    /\ trace[1].op = "clock"
    /\ Unavailable(trace[1].response)
    /\ In("response", trace[1].response)
    /\ \E k \in DOMAIN companies :
         /\ companies[k].sentiment # 0
         /\ companies[k].ticker \notin TICKER_BLACKLIST

\* --------------------------------------------------------------------- C8
\* The legs submitted for decision k fit `first` then `second`, for the
\* ticker of the decision.
LegsFit(k, first(_), second(_)) ==
    LET legs == LegsOf(k)
    IN  /\ Len(legs) <= 2
        /\ \A n \in DOMAIN legs :
             legs[n].fixml.Sym = actionable_strategies[k].ticker
        /\ Len(legs) >= 1 => first(legs[1].fixml)
        /\ Len(legs) >= 2 => second(legs[2].fixml)

\* C8: the orders of an actionable decision match its action, in order: a
\* bull decision submits buy-now then sell-at-close for its ticker (never
\* sell-short or cover), a bear decision short-now then cover-at-close
\* (never a plain buy-now or sell-at-close).
C8_LegsMatchAction ==
    /\ \A j \in Calls("order") : trace[j].strategy \in Decisions
    /\ \A k \in Decisions :
         /\ actionable_strategies[k].action = "bull"
              => LegsFit(k, IsBuyNow, IsSellEod)
         /\ actionable_strategies[k].action = "bear"
              => LegsFit(k, IsShortNow, IsCoverEod)

C8_Witness ==
    /\ Done
    /\ Len(actionable_strategies) = 2
    /\ actionable_strategies[1].action = "bear"
    /\ actionable_strategies[2].action = "bull"
    /\ actionable_strategies[1].ticker # actionable_strategies[2].ticker
    /\ Len(LegsOf(1)) = 2
    /\ Len(LegsOf(2)) = 2

\* --------------------------------------------------------------------- C9
\* The response of an accepted order: present, with a non-empty response
\* object whose error field is exactly "Success".
IsSuccess(response) ==
    /\ ~IsNone(response)
    /\ In("response", response)
    /\ DOMAIN response.response # {}
    /\ In("error", response.response)
    /\ response.response.error = "Success"

\* C9: make_order_request returns true exactly for such a response, and
\* false for every other one.
C9_OrderVerified ==
    \A j \in Calls("order") : trace[j].ret <=> IsSuccess(trace[j].response)

C9_Witness ==
    /\ Cardinality(Calls("order")) = 2
    /\ \E j \in Calls("order") : trace[j].ret
    /\ \E j \in Calls("order") :
         /\ ~trace[j].ret
         /\ In("response", trace[j].response)
         /\ In("error", trace[j].response.response)

\* -------------------------------------------------------------------- C10
\* C10 as stated: 0 for n <= 0, otherwise max(0, balance - CASH_HOLD)
\* rounded to cents, divided by n, and rounded to cents again; never
\* negative.
C10_RoundedTwice ==
    unit.returned =>
        LET n == unit.num_strategies
            avail == Max(0, unit.balance - CashHoldUnits)
        IN  /\ unit.ret = (IF n <= 0 THEN 0
                           ELSE RoundDiv(RoundDiv(avail, 1), n))
            /\ unit.ret >= 0

\* C10, amended: 0 for n <= 0, otherwise max(0, balance - CASH_HOLD) divided
\* by n and rounded to the nearest cent, once (11000 with 1, 2, 3 strategies
\* gives 10000.00, 5000.00, 3333.33); never negative.
C10_RoundedOnce ==
    unit.returned =>
        LET n == unit.num_strategies
            avail == Max(0, unit.balance - CashHoldUnits)
            r == unit.ret
        IN  /\ n <= 0 => r = 0
            /\ n >= 1 => /\ r % Cent = 0
                         /\ 2 * (n * r - avail) <= n * Cent
                         /\ 2 * (avail - n * r) < n * Cent
            /\ r >= 0
            /\ unit.balance = 11000 * Dollar =>
                 /\ n = 1 => r = 10000 * Dollar
                 /\ n = 2 => r = 5000 * Dollar
                 /\ n = 3 => r = 333333 * Cent
                 /\ n = 0 => r = 0

C10_Witness ==
    /\ unit.returned
    /\ unit.num_strategies = 2
    /\ unit.balance = CashHoldUnits + 17
    /\ unit.ret = Cent

\* -------------------------------------------------------------------- C11
\* A quote response that carries a last price: every level is there and
\* last is a number above zero.
HasPrice(response) ==
    /\ ~IsNone(response)
    /\ In("response", response)
    /\ In("quotes", response.response)
    /\ In("quote", response.response.quotes)
    /\ In("last", response.response.quotes.quote)
    /\ FloatOk(response.response.quotes.quote.last)
    /\ response.response.quotes.quote.last.num > 0

LastOf(response) == response.response.quotes.quote.last.num

\* C11: get_quantity returns None when the last price is unavailable or not
\* positive, or when not even one share fits the budget; otherwise it
\* returns q = floor(budget / price), so q >= 1 and
\* q * price <= budget < (q + 1) * price.  It never returns zero or less.
\* (Every call returns one or the other: a call that raises returns neither.)
C11_QuantityIsFloor ==
    \A j \in Calls("quote") :
        /\ ~trace[j].raised
        /\ LET b == trace[j].budget
               q == trace[j].quantity
           IN  IF ~HasPrice(trace[j].response)
               THEN q = None
               ELSE LET price == LastOf(trace[j].response)
                    IN  IF b < price
                        THEN q = None
                        ELSE /\ q >= 1
                             /\ q * price <= b
                             /\ b < (q + 1) * price

\* The same of the calls whose price lookup returned.
C11_QuantityIsFloorWhenReturned ==
    \A j \in Calls("quote") :
        ~trace[j].raised =>
            LET b == trace[j].budget
                q == trace[j].quantity
            IN  IF ~HasPrice(trace[j].response)
                THEN q = None
                ELSE LET price == LastOf(trace[j].response)
                     IN  IF b < price
                         THEN q = None
                         ELSE /\ q >= 1
                              /\ q * price <= b
                              /\ b < (q + 1) * price

C11_Witness ==
    \E j \in Calls("quote") :
        /\ ~trace[j].raised
        /\ HasPrice(trace[j].response)
        /\ trace[j].quantity = 2
        /\ trace[j].quantity * LastOf(trace[j].response) < trace[j].budget

\* -------------------------------------------------------------------- C12
\* C12: for a ticker of the blacklist get_strategy returns hold with reason
\* "blacklist", whatever the sentiment and the market status.
C12_BlacklistHolds ==
    (unit.returned /\ unit.company.ticker \in {"GOOG", "GOOGL"}) =>
        /\ unit.ret.action = "hold"
        /\ unit.ret.reason = "blacklist"

C12_Witness ==
    /\ unit.returned
    /\ unit.company.ticker = "GOOGL"
    /\ unit.company.sentiment > 0
    /\ unit.market_status = "close"
    /\ unit.ret.reason = "blacklist"

\* -------------------------------------------------------------------- C13
\* C13: for a ticker off the blacklist and a market status that is not pre
\* or open, get_strategy returns hold with reason "market closed", whatever
\* the sentiment.
C13_ClosedMarketHolds ==
    (/\ unit.returned
     /\ unit.company.ticker \notin {"GOOG", "GOOGL"}
     /\ unit.market_status \notin {"pre", "open"}) =>
        /\ unit.ret.action = "hold"
        /\ unit.ret.reason = "market closed"

C13_Witness ==
    /\ unit.returned
    /\ unit.company.ticker = "GM"
    /\ unit.company.sentiment = 0
    /\ unit.market_status = "after"
    /\ unit.ret.reason = "market closed"

\* -------------------------------------------------------------------- C14
\* C14: for a ticker off the blacklist under status pre or open the sign of
\* the sentiment decides: 0 gives hold / "neutral sentiment", above 0 bull /
\* "positive sentiment", below 0 bear / "negative sentiment"; the decision
\* always carries the ticker of the company.
C14_SentimentSign ==
    unit.returned =>
        /\ unit.ret.ticker = unit.company.ticker
        /\ (/\ unit.company.ticker \notin {"GOOG", "GOOGL"}
            /\ unit.market_status \in {"pre", "open"}) =>
             /\ unit.company.sentiment = 0 =>
                  /\ unit.ret.action = "hold"
                  /\ unit.ret.reason = "neutral sentiment"
             /\ unit.company.sentiment > 0 =>
                  /\ unit.ret.action = "bull"
                  /\ unit.ret.reason = "positive sentiment"
             /\ unit.company.sentiment < 0 =>
                  /\ unit.ret.action = "bear"
                  /\ unit.ret.reason = "negative sentiment"

C14_Witness ==
    /\ unit.returned
    /\ unit.company.ticker = "F"
    /\ unit.company.sentiment = -2
    /\ unit.market_status = "pre"
    /\ unit.ret.action = "bear"

\* -------------------------------------------------------------------- C15
\* The attributes every order carries, and those of a cover order.
OrderAttributes == {"TmInForce", "Typ", "Side", "Acct", "SecTyp", "Sym", "Qty"}

\* C15: the four builders give exactly these attributes: buy-now day (0),
\* buy (1), no account type; sell-at-close market-on-close (7), sell (2), no
\* account type; short-now day (0), sell-short (5), no account type;
\* cover-at-close market-on-close (7), buy (1), account type cover (5).  All
\* carry order type market (1), the account, security type CS, the ticker
\* and the quantity (23 as "23").
C15_OrderAttributes ==
    unit.returned =>
        LET f == unit.ret
            Is(tif, side) ==
                /\ f.TmInForce = tif
                /\ f.Side = side
                /\ DOMAIN f = OrderAttributes
        IN  /\ f.Typ = "1"
            /\ f.Acct = TRADEKING_ACCOUNT_NUMBER
            /\ f.SecTyp = "CS"
            /\ f.Sym = unit.ticker
            /\ IntOf(f.Qty) = unit.quantity
            /\ unit.quantity = 23 => f.Qty = <<"2", "3">>
            /\ unit.fn = "fixml_buy_now" => Is("0", "1")
            /\ unit.fn = "fixml_sell_eod" => Is("7", "2")
            /\ unit.fn = "fixml_short_now" => Is("0", "5")
            /\ unit.fn = "fixml_cover_eod" =>
                 /\ f.TmInForce = "7"
                 /\ f.Side = "1"
                 /\ DOMAIN f = OrderAttributes \cup {"AcctTyp"}
                 /\ f.AcctTyp = "5"

C15_Witness ==
    /\ unit.returned
    /\ unit.fn = "fixml_cover_eod"
    /\ unit.ticker = "GM"
    /\ unit.quantity = 23
    /\ unit.ret.Qty = <<"2", "3">>
    /\ unit.ret.AcctTyp = "5"

\* -------------------------------------------------------------------- C16
IsOpening(f) == IsBuyNow(f) \/ IsShortNow(f)

IsClosing(f) == IsSellEod(f) \/ IsCoverEod(f)

\* C16: within one strategy the closing leg is submitted only after the
\* opening leg of that strategy was submitted and verified successful; when
\* the opening leg fails, no closing leg of that strategy is submitted and
\* the strategy's outcome is false (so is the run's result).
C16_ClosingAfterVerifiedOpening ==
    \A k \in Decisions :
        LET legs == LegsOf(k)
        IN  /\ \A n \in DOMAIN legs :
                 IsClosing(legs[n].fixml) =>
                     /\ n > 1
                     /\ IsOpening(legs[1].fixml)
                     /\ legs[1].ret
                     /\ IsSuccess(legs[1].response)
            /\ (Len(legs) >= 1 /\ ~legs[1].ret) =>
                 /\ Len(legs) = 1
                 /\ IsOpening(legs[1].fixml)
                 /\ ~success
                 /\ Done => ~result

C16_Witness ==
    /\ Done
    /\ ~result
    /\ Len(actionable_strategies) = 2
    /\ Len(LegsOf(1)) = 2
    /\ IsClosing(LegsOf(1)[2].fixml)
    /\ Len(LegsOf(2)) = 1
    /\ IsOpening(LegsOf(2)[1].fixml)
    /\ ~LegsOf(2)[1].ret

\* -------------------------------------------------------------------- C17
\* C17: the only orders of a run are legs of actionable decisions, each leg
\* at most once: a failed leg is not resubmitted, a failed closing leg is
\* followed by no further order of that decision, and a decision has at most
\* two order submissions.
C17_EachLegAtMostOnce ==
    /\ \A j \in Calls("order") :
         /\ trace[j].strategy \in Decisions
         /\ trace[j].fixml.Sym = actionable_strategies[trace[j].strategy].ticker
         /\ IsOpening(trace[j].fixml) \/ IsClosing(trace[j].fixml)
    /\ \A k \in Decisions :
         LET legs == LegsOf(k)
         IN  /\ Len(legs) <= 2
             /\ \A m, n \in DOMAIN legs :
                  legs[m].fixml = legs[n].fixml => m = n
             /\ \A n \in DOMAIN legs : ~legs[n].ret => n = Len(legs)
    /\ Cardinality(Calls("order")) <= 2 * Len(actionable_strategies)

C17_Witness ==
    /\ Done
    /\ \E k \in Decisions :
         /\ Len(LegsOf(k)) = 2
         /\ LegsOf(k)[1].ret
         /\ ~LegsOf(k)[2].ret
         /\ IsClosing(LegsOf(k)[2].fixml)

\* -------------------------------------------------------------------- C18
\* The trace positions of the price lookups and orders.
Sized == Calls("quote") \cup Calls("order")

\* C18: the gateway calls of a run come in the order market status, balance,
\* then per actionable decision, in the order of the input company list, its
\* price lookup followed by its order legs.  The balance is fetched once,
\* only after every decision is computed and one is actionable; no call of a
\* later decision precedes a call of an earlier one; every decision is sized
\* with the same single budget.
C18_GatewayCallOrder ==
    /\ \A i \in Calls("clock") :
         \A j \in DOMAIN trace \ Calls("clock") : i < j
    /\ Cardinality(Calls("balance")) <= 1
    /\ (actionable_strategies # <<>> /\ pc # "budget")
          => Cardinality(Calls("balance")) = 1
    /\ Calls("balance") # {} =>
         /\ Len(selected) = Len(companies)
         /\ actionable_strategies # <<>>
    /\ \A j \in Sized : \E i \in Calls("balance") : i < j
    /\ \A i, j \in Sized :
         i < j => trace[i].strategy <= trace[j].strategy
    /\ \A k \in Decisions :
         /\ Cardinality(CallsFor("quote", k)) <= 1
         /\ \A j \in CallsFor("order", k) :
              \E i \in CallsFor("quote", k) : i < j
    /\ \A k \in DOMAIN selected : selected[k].company = companies[k]
    /\ LET Actionable(c) == c.strategy.action # "hold"
           kept == SelectSeq(selected, Actionable)
       IN  /\ Len(actionable_strategies) = Len(kept)
           /\ \A k \in Decisions :
                /\ actionable_strategies[k] = kept[k].strategy
                /\ actionable_strategies[k].ticker = kept[k].company.ticker
    /\ \A j \in Calls("quote") :
         /\ trace[j].budget = budget
         /\ trace[j].ticker = actionable_strategies[trace[j].strategy].ticker
    /\ Calls("balance") # {} =>
         budget = get_budget(balance, Len(actionable_strategies))

C18_Witness ==
    /\ Done
    /\ Len(actionable_strategies) = 2
    /\ actionable_strategies[1].ticker # actionable_strategies[2].ticker
    /\ Len(trace) = 9
    /\ trace[3].op = "balance"
    /\ trace[4].op = "quote" /\ trace[4].strategy = 1
    /\ trace[6].op = "order" /\ trace[6].strategy = 1
    /\ trace[7].op = "quote" /\ trace[7].strategy = 2
    /\ trace[9].op = "order" /\ trace[9].strategy = 2

\* -------------------------------------------------------------------- C19
\* C19: get_last_price never raises: for a response without a last price
\* (no response, no response object, empty or missing quotes or quote, no
\* last, a last that is not a number or not above zero) it returns None, and
\* it returns the price when last parses to a number above zero.
C19_LastPriceNeverRaises ==
    /\ pc # "raised"
    /\ \A j \in Calls("quote") :
         /\ ~trace[j].raised
         /\ trace[j].ret = IF HasPrice(trace[j].response)
                           THEN LastOf(trace[j].response)
                           ELSE None

\* What get_last_price returns whenever it does return.
C19_LastPriceWhenReturned ==
    \A j \in Calls("quote") :
        ~trace[j].raised =>
            trace[j].ret = IF HasPrice(trace[j].response)
                           THEN LastOf(trace[j].response)
                           ELSE None

\* -------------------------------------------------------------------- C20
\* A decision the loop has passed whose action is neither bull nor bear.
UnknownPassed ==
    {k \in Decisions :
        k < idx /\ actionable_strategies[k].action \notin {"bull", "bear"}}

C20_UnknownActionNoOrder ==
    \A k \in UnknownPassed :
        CallsFor("quote", k) = {} /\ CallsFor("order", k) = {}

\* -------------------------------------------------------------------- C21
\* A company that must be held under the status the decisions were made
\* with: blacklisted, neutral, or the market is not pre or open.
MustHold(company) ==
    \/ company.ticker \in TICKER_BLACKLIST
    \/ company.sentiment = 0
    \/ market_status \notin {"pre", "open"}

\* The companies of the input that need not be held, in input order.
Tradable ==
    LET MayTrade(company) == ~MustHold(company)
    IN  SelectSeq(companies, MayTrade)

\* C21: no price lookup and no order is issued for a blacklisted ticker or
\* for a company with sentiment 0, and none at all when the status the
\* decisions were made with is not pre or open; the hold decisions are
\* dropped and every other company stays in the run: the actionable
\* decisions are those of the tradable companies, every one of them.
C21_HoldSafety ==
    /\ \A j \in Sized :
         /\ trace[j].strategy \in DOMAIN Tradable
         /\ LET company == Tradable[trace[j].strategy]
            IN  /\ company.ticker \notin TICKER_BLACKLIST
                /\ company.sentiment # 0
                /\ trace[j].op = "quote" => trace[j].ticker = company.ticker
                /\ trace[j].op = "order" => trace[j].fixml.Sym = company.ticker
         /\ market_status \in {"pre", "open"}
    /\ DecisionsMade =>
         /\ Len(selected) = Len(companies)
         /\ Len(actionable_strategies) = Len(Tradable)
         /\ \A k \in Decisions :
              actionable_strategies[k].ticker = Tradable[k].ticker

C21_Witness ==
    /\ Done
    /\ Len(companies) = 2
    /\ companies[1].sentiment = 0
    /\ companies[1].ticker = companies[2].ticker
    /\ Len(actionable_strategies) = 1
    /\ Len(LegsOf(1)) = 2

\* -------------------------------------------------------------------- C22
\* C22: when both legs of a strategy are submitted, the two orders carry the
\* same ticker and the same quantity; the quantity is the one of the single
\* price lookup of that strategy, made before the opening leg, and is at
\* least 1.  No order is submitted with a quantity of 0 or less.
C22_MatchedLegs ==
    /\ \A j \in Calls("order") :
         /\ trace[j].fixml.Qty # <<>>
         /\ trace[j].fixml.Qty[1] # "-"
         /\ IntOf(trace[j].fixml.Qty) >= 1
    /\ \A k \in Decisions :
         LET legs == LegsOf(k)
         IN  Len(legs) = 2 =>
               /\ legs[1].fixml.Sym = legs[2].fixml.Sym
               /\ legs[1].fixml.Qty = legs[2].fixml.Qty
               /\ Cardinality(CallsFor("quote", k)) = 1
               /\ \A i \in CallsFor("quote", k) :
                    /\ \A j \in CallsFor("order", k) : i < j
                    /\ trace[i].quantity >= 1
                    /\ trace[i].quantity = IntOf(legs[1].fixml.Qty)
                    /\ trace[i].ticker = legs[1].fixml.Sym

C22_Witness ==
    \E k \in Decisions :
        /\ Len(LegsOf(k)) = 2
        /\ LegsOf(k)[1].fixml.Qty = <<"2">>
        /\ LegsOf(k)[2].fixml.Qty = <<"2">>
        /\ IsSellEod(LegsOf(k)[2].fixml)

\* -------------------------------------------------------------------- C23
\* The requests of a run stay within: one balance request, one price lookup
\* and two orders per actionable decision.
C23_ResourceBounds ==
    /\ Cardinality(Calls("balance")) <= 1
    /\ \A j \in Sized : trace[j].strategy \in Decisions
    /\ \A k \in Decisions :
         /\ Cardinality(CallsFor("quote", k)) <= 1
         /\ Cardinality(CallsFor("order", k)) <= 2

\* C23: every gateway call returning, make_trades eventually terminates
\* with a boolean result, having made at most one balance request, at most
\* one price lookup and at most two order submissions per actionable
\* decision.
C23_Terminates ==
    /\ <>(Done /\ result \in BOOLEAN)
    /\ []C23_ResourceBounds

\* What holds of every run: it ends, by returning a boolean or by the
\* NameError of get_last_price.
C23_TerminatesOrRaises == <>((Done /\ result \in BOOLEAN) \/ pc = "raised")

====
